---- MODULE Spec2Model ----
(***************************************************************************)
(* Operation synthesizer (src/tools/build-operation-for-field.ts) and the  *)
(* structural node interning cache (src/tools/duplicate.ts) of sofa-api.   *)
(*                                                                         *)
(* AST nodes are JavaScript objects: they live in `heap` and are referred  *)
(* to by their index, so that "the same object instance" is equality of    *)
(* indices.  The arrays held by the module-level `operationVariables` live *)
(* in `arrays` for the same reason.  A synthesis call is synchronous and   *)
(* runs to completion (or throws), so it is one action; the stacks the     *)
(* recursion shares (`ancestors`, `path`) and the module-level state are   *)
(* threaded through the recursion in a context record.                     *)
(*                                                                         *)
(* Hash values: the 32-bit content hash of a string is modelled as the     *)
(* string "m(content)" for the md5 fallback and "x(content)" for xxhash,   *)
(* i.e. as a function of the hashed content that differs between the two   *)
(* algorithms.  A 32-bit hash is not injective: the model lets exactly one *)
(* pair of contents collide (CollidingContents), the signature of a NAME   *)
(* node and the signature of a VARIABLE node that no schema of the model   *)
(* produces.                                                               *)
(***************************************************************************)
EXTENDS Integers, Sequences, FiniteSets, TLC

VARIABLES
  heap,                \* AST node objects, by reference
  nodeCache,           \* duplicate.ts nodeCache: kind -> set of <<hash, ref>>
  upNumber,            \* duplicate.ts upNumber
  h32Loaded,           \* duplicate.ts h32 !== undefined
  arrays,              \* array objects created for operationVariables
  operationVariables,  \* reference (into arrays) held by the module variable
  fieldTypeMap,        \* module-level Map: field path string -> type string
  docs,                \* outcome of every buildOperationNodeForField call so far
  interned             \* outcome of every getCachedNode call made by a caller

vars == <<heap, nodeCache, upNumber, h32Loaded, arrays, operationVariables,
          fieldTypeMap, docs, interned>>

-----------------------------------------------------------------------------
(* Bounds of the model *)

MaxCalls == 1
MaxSeqCalls == 2
MaxDepthLimit == 2
MaxCircularDepth == 2
MaxInterned == 3

(* Program constants *)

MAX_DEPTH == 3
MAX_ARRARY_LENGTH == 8
Infinity == 1000000

-----------------------------------------------------------------------------
(* Schema values (graphql-js GraphQLSchema, read only) *)

Ty(name, wrap) == [name |-> name, wrap |-> wrap]
Arg(name, type) == [name |-> name, type |-> type]
Fld(name, type, args) == [name |-> name, type |-> type, args |-> args]
ObjectT(fields, interfaces) ==
  [kind |-> "OBJECT", fields |-> fields, members |-> <<>>, interfaces |-> interfaces]
UnionT(members) ==
  [kind |-> "UNION", fields |-> <<>>, members |-> members, interfaces |-> {}]
InterfaceT(fields) ==
  [kind |-> "INTERFACE", fields |-> fields, members |-> <<>>, interfaces |-> {}]
ScalarT == [kind |-> "SCALAR", fields |-> <<>>, members |-> <<>>, interfaces |-> {}]

Scalars == [n \in {"ID", "String", "Int", "Boolean"} |-> ScalarT]

\* Scenario A: Query.user: User, User { id, name, friends: [User] }
SchemaUsers ==
  [order |-> <<"Query", "User">>,
   types |-> Scalars @@
     [n \in {"Query", "User"} |->
        IF n = "Query"
        THEN ObjectT(<<Fld("user", Ty("User", <<>>), <<>>)>>, {})
        ELSE ObjectT(<<Fld("id", Ty("ID", <<>>), <<>>),
                       Fld("name", Ty("String", <<>>), <<>>),
                       Fld("friends", Ty("User", <<"L">>), <<>>)>>, {})]]

\* A self-referential type T.related: T, with a second object type X that
\* points back to the root type.
SchemaTree ==
  [order |-> <<"Query", "T", "X">>,
   types |-> Scalars @@
     [n \in {"Query", "T", "X"} |->
        CASE n = "Query" -> ObjectT(<<Fld("t", Ty("T", <<>>), <<>>)>>, {})
          [] n = "T" -> ObjectT(<<Fld("id", Ty("ID", <<>>), <<>>),
                                  Fld("related", Ty("T", <<>>), <<>>),
                                  Fld("other", Ty("X", <<>>), <<>>)>>, {})
          [] n = "X" -> ObjectT(<<Fld("id", Ty("ID", <<>>), <<>>),
                                  Fld("viewer", Ty("Query", <<>>), <<>>)>>, {})]]

\* Scenario B: nested fields with arguments, three levels deep.
SchemaBlog ==
  [order |-> <<"Query", "Post", "Comment", "Author">>,
   types |-> Scalars @@
     [n \in {"Query", "Post", "Comment", "Author"} |->
        CASE n = "Query" ->
               ObjectT(<<Fld("posts", Ty("Post", <<"L">>),
                             <<Arg("first", Ty("Int", <<>>)),
                               Arg("tag", Ty("String", <<"N">>))>>)>>, {})
          [] n = "Post" ->
               ObjectT(<<Fld("id", Ty("ID", <<>>), <<>>),
                         Fld("comments", Ty("Comment", <<"L">>),
                             <<Arg("after", Ty("String", <<>>)),
                               Arg("limit", Ty("Int", <<"N">>)),
                               Arg("sort", Ty("String", <<>>))>>)>>, {})
          [] n = "Comment" ->
               ObjectT(<<Fld("id", Ty("ID", <<>>), <<>>),
                         Fld("author", Ty("Author", <<>>),
                             <<Arg("full", Ty("Boolean", <<>>))>>)>>, {})
          [] n = "Author" ->
               ObjectT(<<Fld("name", Ty("String", <<>>), <<>>)>>, {})]]

\* Scenario C: a union of three members and an interface; two members declare
\* a field of the same name with an argument of a different type.
SchemaSearch ==
  [order |-> <<"Query", "Result", "Node", "Book", "Film", "Song">>,
   types |-> Scalars @@
     [n \in {"Query", "Result", "Node", "Book", "Film", "Song"} |->
        CASE n = "Query" ->
               ObjectT(<<Fld("search", Ty("Result", <<"L">>),
                             <<Arg("q", Ty("String", <<>>))>>),
                         Fld("node", Ty("Node", <<>>), <<>>)>>, {})
          [] n = "Result" -> UnionT(<<"Book", "Film", "Song">>)
          [] n = "Node" -> InterfaceT(<<Fld("id", Ty("ID", <<>>), <<>>)>>)
          [] n = "Book" ->
               ObjectT(<<Fld("id", Ty("ID", <<>>), <<>>),
                         Fld("title", Ty("String", <<>>),
                             <<Arg("len", Ty("Int", <<>>))>>)>>, {"Node"})
          [] n = "Film" ->
               ObjectT(<<Fld("id", Ty("ID", <<>>), <<>>),
                         Fld("title", Ty("Int", <<"N">>),
                             <<Arg("len", Ty("String", <<>>))>>)>>, {"Node"})
          [] n = "Song" ->
               ObjectT(<<Fld("lyrics", Ty("String", <<>>), <<>>),
                         Fld("also", Ty("Result", <<>>), <<>>)>>, {})]]

\* A type graph with a cycle through each kind of composite type:
\* Query.e: Ent; interface Ent { id }; A implements Ent { id, next: Ent,
\* u: U }; union U = A | B; B { id, a: A }
SchemaLoop ==
  [order |-> <<"Query", "Ent", "A", "U", "B">>,
   types |-> Scalars @@
     [n \in {"Query", "Ent", "A", "U", "B"} |->
        CASE n = "Query" -> ObjectT(<<Fld("e", Ty("Ent", <<>>), <<>>)>>, {})
          [] n = "Ent" -> InterfaceT(<<Fld("id", Ty("ID", <<>>), <<>>)>>)
          [] n = "A" ->
               ObjectT(<<Fld("id", Ty("ID", <<>>), <<>>),
                         Fld("next", Ty("Ent", <<>>), <<>>),
                         Fld("u", Ty("U", <<>>), <<>>)>>, {"Ent"})
          [] n = "U" -> UnionT(<<"A", "B">>)
          [] n = "B" ->
               ObjectT(<<Fld("id", Ty("ID", <<>>), <<>>),
                         Fld("a", Ty("A", <<>>), <<>>)>>, {})]]

\* A union whose members have a field of the same name with the return
\* types String, Int!, Int!: Query.items: [Item]; union Item = Book | Film |
\* Game; Book { title: String } Film { title: Int! } Game { title: Int! }
SchemaMedia ==
  [order |-> <<"Query", "Item", "Book", "Film", "Game">>,
   types |-> Scalars @@
     [n \in {"Query", "Item", "Book", "Film", "Game"} |->
        CASE n = "Query" -> ObjectT(<<Fld("items", Ty("Item", <<"L">>), <<>>)>>, {})
          [] n = "Item" -> UnionT(<<"Book", "Film", "Game">>)
          [] n = "Book" -> ObjectT(<<Fld("title", Ty("String", <<>>), <<>>)>>, {})
          [] n = "Film" -> ObjectT(<<Fld("title", Ty("Int", <<"N">>), <<>>)>>, {})
          [] n = "Game" -> ObjectT(<<Fld("title", Ty("Int", <<"N">>), <<>>)>>, {})]]

SchemaNames == {"users", "tree", "blog", "search", "loop", "media"}

SchemaOf(s) ==
  CASE s = "users" -> SchemaUsers
    [] s = "tree" -> SchemaTree
    [] s = "blog" -> SchemaBlog
    [] s = "search" -> SchemaSearch
    [] s = "loop" -> SchemaLoop
    [] s = "media" -> SchemaMedia

\* getRootTypeNames(schema): only a query root is defined in these schemas.
getRootTypeNames(schema) == {"Query"}

\* getDefinedRootType(schema, kind)
getDefinedRootType(schema, kind) == "Query"

TypeDef(schema, n) == schema.types[n]

isScalarType(schema, n) == TypeDef(schema, n).kind = "SCALAR"
isEnumType(schema, n) == TypeDef(schema, n).kind = "ENUM"
isObjectType(schema, n) == TypeDef(schema, n).kind = "OBJECT"
isUnionType(schema, n) == TypeDef(schema, n).kind = "UNION"
isInterfaceType(schema, n) == TypeDef(schema, n).kind = "INTERFACE"

\* getNamedType(type): strip the list and non-null wrappers
getNamedType(type) == type.name

isNonNullType(type) == Len(type.wrap) > 0 /\ type.wrap[1] = "N"
isListType(type) == Len(type.wrap) > 0 /\ type.wrap[1] = "L"
ofType(type) == Ty(type.name, Tail(type.wrap))

\* type.toString(): "[User!]!" for NonNull(List(NonNull(User)))
RECURSIVE TypeToString(_)
TypeToString(type) ==
  IF type.wrap = <<>> THEN type.name
  ELSE IF isListType(type) THEN "[" \o TypeToString(ofType(type)) \o "]"
  ELSE TypeToString(ofType(type)) \o "!"

\* type.toString().replace(/!/g,'NonNull').replace(/\[/g,'List').replace(/\]/g,'')
RECURSIVE SanitizedTypeString(_)
SanitizedTypeString(type) ==
  IF type.wrap = <<>> THEN type.name
  ELSE IF isListType(type) THEN "List" \o SanitizedTypeString(ofType(type))
  ELSE SanitizedTypeString(ofType(type)) \o "NonNull"

\* array.join(sep) on an array of strings: the elements in order with sep
\* between them (the two halves joined, then joined to each other)
RECURSIVE Join(_, _)
Join(seq, sep) ==
  CASE Len(seq) = 0 -> ""
    [] Len(seq) = 1 -> seq[1]
    [] Len(seq) > 1 ->
         Join(SubSeq(seq, 1, Len(seq) \div 2), sep) \o sep
         \o Join(SubSeq(seq, Len(seq) \div 2 + 1, Len(seq)), sep)

FieldIndex(schema, t, fname) ==
  CHOOSE i \in 1..Len(TypeDef(schema, t).fields) : TypeDef(schema, t).fields[i].name = fname

HasField(schema, t, fname) ==
  \E i \in 1..Len(TypeDef(schema, t).fields) : TypeDef(schema, t).fields[i].name = fname

FieldDef(schema, t, fname) == TypeDef(schema, t).fields[FieldIndex(schema, t, fname)]

-----------------------------------------------------------------------------
(* duplicate.ts: structural signature and interning cache *)

\* `const x = v; K(x)`: v is computed first, then K continues with its value
Bind(v, K(_)) == CHOOSE r \in {K(x) : x \in {v}} : TRUE

\* An AST node object.  Absent properties are 0 (a reference), <<>> or "".
\* `hash` is the number stamped on the object, "" when there is none.
NewNode(kind) ==
  [kind |-> kind, value |-> "", name |-> 0, alias |-> 0, arguments |-> <<>>,
   hasSelectionSet |-> FALSE, selectionSet |-> 0, selections |-> <<>>,
   typeCondition |-> 0, type |-> 0, variable |-> 0, valueNode |-> 0,
   hash |-> ""]

NoHash == ""

\* One element pushed on `parts`: a string, or a number that is a hash.
StrPart(s) == s
HashPart(h) == h

\* Two contents with the same 32-bit hash (under md5 and under xxhash alike)
CollidingContents == {"Name,NameNode_k,130", "Variable,NameNode_k"}

\* getContentHashInt(content): md5 until xxhash has loaded, h32 afterwards
getContentHashInt(loaded, content) ==
  (IF loaded THEN "x(" ELSE "m(")
  \o (IF content \in CollidingContents THEN "collision" ELSE content) \o ")"

\* getNamedNodeInfo(node): the stamped hash, else `NameNode_${value}`
getNamedNodeInfo(hp, ref) ==
  IF ref # 0 /\ hp[ref].hash # NoHash THEN HashPart(hp[ref].hash)
  ELSE StrPart("NameNode_" \o (IF ref = 0 THEN "UNDEF" ELSE hp[ref].value))

getNamedNodeInfoOf(node) ==
  IF node.hash # NoHash THEN HashPart(node.hash)
  ELSE StrPart("NameNode_" \o node.value)

\* extractNodeName(node)
extractNodeName(hp, node) ==
  IF node.name # 0 /\ hp[node.name].value # "" THEN hp[node.name].value ELSE ""

\* extractNodeSignature(node): counts of arguments and selections
extractNodeSignature(hp, node) ==
  (IF Len(node.arguments) > 0
   THEN <<StrPart("args:" \o ToString(Len(node.arguments)))>> ELSE <<>>)
  \o
  (IF node.selectionSet # 0 /\ Len(hp[node.selectionSet].selections) > 0
   THEN <<StrPart("sels:" \o ToString(Len(hp[node.selectionSet].selections)))>>
   ELSE <<>>)

\* calculateNodeHash(node): hash of the reduced feature summary
calculateNodeHash(hp, loaded, node) ==
  getContentHashInt(loaded,
    Join(<<StrPart("summary"), StrPart(node.kind), StrPart(extractNodeName(hp, node))>>
         \o extractNodeSignature(hp, node), ","))

\* getTypeSignature(type)
RECURSIVE getTypeSignature(_, _)
getTypeSignature(hp, node) ==
  CASE node.kind = "NamedType" -> <<getNamedNodeInfo(hp, node.name)>>
    [] node.kind = "ListType" ->
         <<StrPart("[")>> \o getTypeSignature(hp, hp[node.type]) \o <<StrPart("]")>>
    [] node.kind = "NonNullType" ->
         getTypeSignature(hp, hp[node.type]) \o <<StrPart("!")>>
    [] OTHER -> <<StrPart("UNKNOWN")>>

\* getValueSignature(value): only variables occur as values
getValueSignature(hp, node) ==
  IF node.kind = "Variable" THEN <<getNamedNodeInfo(hp, node.name)>>
  ELSE <<StrPart("UNKNOWN")>>

\* simplifyUnknownNode(node): JSON.stringify of the whole subtree, hash keys
\* left out.  Only variable definitions reach it.
RECURSIVE TypeJson(_, _)
TypeJson(hp, node) ==
  IF node.kind = "NamedType"
  THEN <<StrPart("NamedType"), StrPart("Name:" \o hp[node.name].value)>>
  ELSE <<StrPart(node.kind)>> \o TypeJson(hp, hp[node.type])

simplifyUnknownNode(hp, node) ==
  <<StrPart("json"), StrPart(node.kind)>>
  \o (IF node.variable # 0
      THEN <<StrPart("Variable"),
             StrPart("Name:" \o hp[hp[node.variable].name].value)>>
      ELSE <<>>)
  \o (IF node.type # 0 THEN TypeJson(hp, hp[node.type]) ELSE <<>>)

\* pushArrayFunc(node), what it pushes: a child's stamped hash, else the
\* reduced hash (buildStructuralSignature at depth nextDepth + MAX_DEPTH >
\* MAX_DEPTH), which is then stamped on the child.
pushArrayFunc(hp, loaded, ref) ==
  IF hp[ref].hash # NoHash THEN hp[ref].hash
  ELSE calculateNodeHash(hp, loaded, hp[ref])

\* pushArray(nodes), with pushSimpelifiedFunc for arrays of MAX_ARRARY_LENGTH
\* elements or more.  nodes.forEach(pushArrayFunc): what is pushed for a
\* child, and stamped on it, depends on that child alone.
pushArray(st, loaded, nodes) ==
  IF Len(nodes) >= MAX_ARRARY_LENGTH
  THEN [st EXCEPT !.parts = st.parts \o <<StrPart("RI"), StrPart(ToString(st.up))>>,
                  !.up = st.up + 1]
  ELSE [st EXCEPT
          !.parts = st.parts \o [i \in 1..Len(nodes) |->
                                   HashPart(pushArrayFunc(st.heap, loaded, nodes[i]))],
          !.heap = [r \in 1..Len(st.heap) |->
                      IF \E i \in 1..Len(nodes) : nodes[i] = r
                      THEN [st.heap[r] EXCEPT !.hash = pushArrayFunc(st.heap, loaded, r)]
                      ELSE st.heap[r]]]

\* buildStructuralSignature(node) at depth 0, for a node just built.
\* st = [heap, up, parts, threw]; `threw` is the TypeError of reading
\* `.selections` of an undefined selection set.
buildStructuralSignature(hp, up, loaded, node) ==
  LET st0 == [heap |-> hp, up |-> up, parts |-> <<StrPart(node.kind)>>, threw |-> FALSE]
      push(st, ps) == [st EXCEPT !.parts = st.parts \o ps]
      sels(ref) == IF ref = 0 THEN <<>> ELSE hp[ref].selections
  IN CASE node.kind = "Field" ->
            pushArray(
              pushArray(
                push(st0, <<getNamedNodeInfo(hp, node.name)>>
                          \o (IF node.alias # 0
                              THEN <<StrPart("alias"), getNamedNodeInfo(hp, node.alias)>>
                              ELSE <<>>)),
                loaded, node.arguments),
              loaded, sels(node.selectionSet))
       [] node.kind = "InlineFragment" ->
            IF node.selectionSet = 0
            THEN [push(st0, <<StrPart("typeCondition")>>
                            \o getTypeSignature(hp, hp[node.typeCondition]))
                    EXCEPT !.threw = TRUE]
            ELSE pushArray(push(st0, <<StrPart("typeCondition")>>
                                     \o getTypeSignature(hp, hp[node.typeCondition])),
                           loaded, sels(node.selectionSet))
       [] node.kind = "SelectionSet" -> pushArray(st0, loaded, node.selections)
       [] node.kind = "Name" ->
            push(st0, <<getNamedNodeInfoOf(node), StrPart("130")>>)
       [] node.kind = "Argument" ->
            push(st0, <<getNamedNodeInfo(hp, node.name), StrPart("130")>>
                      \o getValueSignature(hp, hp[node.valueNode]))
       [] node.kind = "Variable" -> push(st0, getValueSignature(hp, node))
       [] node.kind \in {"NamedType", "ListType", "NonNullType"} ->
            push(st0, getTypeSignature(hp, node))
       [] OTHER -> push(st0, simplifyUnknownNode(hp, node))

\* getNodeHash(node), st being what normalizeNode(node) built
getNodeHash(loaded, st) ==
  [heap |-> st.heap, up |-> st.up, threw |-> st.threw,
   hash |-> getContentHashInt(loaded, Join(st.parts, ","))]

CacheHas(cache, kind, hash) ==
  kind \in DOMAIN cache /\ \E e \in cache[kind] : e[1] = hash

CacheGet(cache, kind, hash) ==
  (CHOOSE e \in cache[kind] : e[1] = hash)[2]

\* nodeCache.get(kind)!.set(hash, node), the partition created when missing
CachePut(cache, kind, hash, ref) ==
  LET part == IF kind \in DOMAIN cache THEN cache[kind] ELSE {}
  IN (kind :> ({e \in part : e[1] # hash} \cup {<<hash, ref>>})) @@ cache

\* getCachedNode(node) from `const kind = node.kind` on, g being what
\* getNodeHash(node) gave.  The object passed in is allocated on the heap only
\* when it is kept (a miss).
cacheNode(c, node, g) ==
  LET stamped == [node EXCEPT !.hash = IF node.hash = NoHash THEN g.hash
                                       ELSE node.hash]
      c1 == [c EXCEPT !.heap = g.heap, !.upNumber = g.up]
  IN IF g.threw THEN [c |-> [c1 EXCEPT !.threw = TRUE], r |-> 0]
     ELSE IF CacheHas(c.nodeCache, node.kind, g.hash)
     THEN [c |-> c1, r |-> CacheGet(c.nodeCache, node.kind, g.hash)]
     ELSE [c |-> [c1 EXCEPT !.heap = Append(g.heap, stamped),
                            !.nodeCache = CachePut(c.nodeCache, node.kind, g.hash,
                                                   Len(g.heap) + 1)],
           r |-> Len(g.heap) + 1]

\* getCachedNode(node).  c is the context of the running call; the result is
\* [c, r] with r the reference returned (0 when the call threw).
getCachedNode(c, node) ==
  IF c.threw THEN [c |-> c, r |-> 0]
  ELSE cacheNode(c, node,
         getNodeHash(c.h32Loaded,
           buildStructuralSignature(c.heap, c.upNumber, c.h32Loaded, node)))

\* The nodes the cache holds
StoredNodes(cache) == {e[2] : e \in UNION {cache[k] : k \in DOMAIN cache}}

\* A variant of the reset that leaves the hash stamps on the nodes
CleanedHeap_KeepHash(hp, cache) == hp

\* clearNodeHashes over every cached node, then every partition cleared
CleanedHeap(hp, cache) ==
  LET cached == {e[2] : e \in UNION {cache[k] : k \in DOMAIN cache}}
  IN [i \in 1..Len(hp) |-> IF i \in cached THEN [hp[i] EXCEPT !.hash = NoHash] ELSE hp[i]]

-----------------------------------------------------------------------------
(* build-operation-for-field.ts *)

\* selectedFields: true/false, or an object tree given as <<key, subtree>> pairs;
\* SelUndefined is the value of a key the object does not have.
SelBool(b) == [t |-> "bool", b |-> b, kids |-> <<>>]
SelObject(kids) == [t |-> "obj", b |-> FALSE, kids |-> kids]
SelUndefined == [t |-> "undef", b |-> FALSE, kids |-> <<>>]

SelTruthy(sf) == sf.t = "obj" \/ (sf.t = "bool" /\ sf.b)

\* typeof selectedFields === 'object' ? selectedFields[fieldName] : true
selectedSubFields(sf, fieldName) ==
  IF sf.t = "obj"
  THEN IF \E i \in 1..Len(sf.kids) : sf.kids[i][1] = fieldName
       THEN sf.kids[CHOOSE i \in 1..Len(sf.kids) : sf.kids[i][1] = fieldName][2]
       ELSE SelUndefined
  ELSE SelBool(TRUE)

\* A variant of pop() that leaves the array as it is
Front_Keep(seq) == seq

\* array.pop(): the array without its last element
Front(seq) == SubSeq(seq, 1, Len(seq) - 1)

\* A variant of hasCircularRef that tolerates one more occurrence
hasCircularRef_OneMore(schema, types, depth) ==
  LET type == types[Len(types)]
  IN IF isScalarType(schema, type) THEN FALSE
     ELSE Cardinality({i \in 1..Len(types) : types[i] = type}) > depth + 1

\* A variant of hasCircularRef that counts every type of the stack except
\* the one on top
hasCircularRef_BelowTop(schema, types, depth) ==
  LET type == types[Len(types)]
  IN IF isScalarType(schema, type) THEN FALSE
     ELSE Cardinality({i \in 1..Len(types) - 1 : types[i] = type}) > depth

\* hasCircularRef(types, {depth}): the type on top of the stack occurs more
\* than `depth` times in the whole stack; a scalar is never circular
hasCircularRef(schema, types, depth) ==
  LET type == types[Len(types)]
  IN IF isScalarType(schema, type) THEN FALSE
     ELSE Cardinality({i \in 1..Len(types) : types[i] = type}) > depth

\* getArgumentName(name, path)
getArgumentName(name, path) ==
  IF Len(path) = 0 THEN name ELSE Join(path, "_") \o "_" \o name

\* addOperationVariable(variable): push on the array operationVariables holds;
\* v = [c, r] is what resolveVariable gave
addOperationVariable(v) ==
  IF v.c.threw THEN v.c
  ELSE [v.c EXCEPT !.arrays[v.c.operationVariables] =
                      Append(v.c.arrays[v.c.operationVariables], v.r),
                   !.registered = Append(v.c.registered, v.r)]

\* A variant of resetOperationVariables that empties the array in place
\* (operationVariables.length = 0) instead of assigning a new one
resetOperationVariables_InPlace(c) ==
  [c EXCEPT !.arrays[c.operationVariables] = <<>>]

\* resetOperationVariables(): a new array object is assigned
resetOperationVariables(c) ==
  [c EXCEPT !.arrays = Append(c.arrays, <<>>),
            !.operationVariables = Len(c.arrays) + 1]

\* A variant of the reset that leaves the field type map as it is
resetFieldMap_Keep(c) == c

\* resetFieldMap()
resetFieldMap(c) == [c EXCEPT !.fieldTypeMap = <<>>]

FieldMapHas(m, k) == \E i \in 1..Len(m) : m[i][1] = k
FieldMapGet(m, k) == m[CHOOSE i \in 1..Len(m) : m[i][1] = k][2]
FieldMapSet(m, k, v) ==
  IF FieldMapHas(m, k)
  THEN [i \in 1..Len(m) |-> IF m[i][1] = k THEN <<k, v>> ELSE m[i]]
  ELSE Append(m, <<k, v>>)

\* getCachedNode({kind: Kind.NAME, value})
CachedName(c, value) == getCachedNode(c, [NewNode("Name") EXCEPT !.value = value])

\* getCachedNode({kind: Kind.VARIABLE, name: getCachedNode({kind: Kind.NAME, value})})
CachedVariable(c, value) ==
  Bind(CachedName(c, value), LAMBDA n :
    getCachedNode(n.c, [NewNode("Variable") EXCEPT !.name = n.r]))

\* resolveVariableType(type) inside resolveVariable
RECURSIVE resolveVariableType(_, _)
resolveVariableType(c, type) ==
  CASE isListType(type) ->
         Bind(resolveVariableType(c, ofType(type)), LAMBDA inner :
           getCachedNode(inner.c, [NewNode("ListType") EXCEPT !.type = inner.r]))
    [] isNonNullType(type) ->
         Bind(resolveVariableType(c, ofType(type)), LAMBDA inner :
           getCachedNode(inner.c, [NewNode("NonNullType") EXCEPT !.type = inner.r]))
    [] OTHER ->
         Bind(CachedName(c, type.name), LAMBDA n :
           getCachedNode(n.c, [NewNode("NamedType") EXCEPT !.name = n.r]))

\* resolveVariable(arg, name)
resolveVariable(c, arg, name) ==
  Bind(CachedVariable(c, IF name # "" THEN name ELSE arg.name), LAMBDA v :
  Bind(resolveVariableType(v.c, arg.type), LAMBDA t :
    getCachedNode(t.c, [NewNode("VariableDefinition") EXCEPT
                          !.variable = v.r, !.type = t.r])))

\* The module constant STATIC_ID_SELECTION_SET is interned when the module is
\* loaded: the cache is empty and xxhash has not loaded yet.
EmptyContext ==
  [heap |-> <<>>, nodeCache |-> <<>>, upNumber |-> 0, h32Loaded |-> FALSE,
   arrays |-> <<<<>>>>, operationVariables |-> 1, fieldTypeMap |-> <<>>,
   ancestors |-> <<>>, path |-> <<>>, threw |-> FALSE, thrownAt |-> <<>>,
   entries |-> {}, returns |-> {}, exits |-> {}, skipped |-> {}, calls |-> {},
   registered |-> <<>>]

ModuleLoad ==
  Bind(CachedName(EmptyContext, "id"), LAMBDA n :
  Bind(getCachedNode(n.c, [NewNode("Field") EXCEPT !.name = n.r]), LAMBDA f :
    getCachedNode(f.c, [NewNode("SelectionSet") EXCEPT !.selections = <<f.r>>])))

STATIC_ID_SELECTION_SET == ModuleLoad.r


\* A variant of the depth check that applies to an object tree too
depthLimitReached_AnyMode(selectedFields, depth, depthLimit) ==
  depth > depthLimit

\* A variant of the depth check that lets one more level through
depthLimitReached_OneMore(selectedFields, depth, depthLimit) ==
  selectedFields.t = "bool" /\ depth > depthLimit + 1

\* resolveSelectionSet: typeof selectedFields === 'boolean' && depth > depthLimit
depthLimitReached(selectedFields, depth, depthLimit) ==
  selectedFields.t = "bool" /\ depth > depthLimit

\* A variant of the model short-circuit that does not look at firstCall
isModelShortCircuit_AlsoFirstCall(firstCall, isModel, isIgnored) ==
  isModel /\ ~isIgnored

\* resolveSelectionSet: !firstCall && isModel && !isIgnored
isModelShortCircuit(firstCall, isModel, isIgnored) ==
  ~firstCall /\ isModel /\ ~isIgnored

\* resolveField: argNames && !argNames.includes(argumentName)
argumentExcluded(argNames, argumentName) ==
  argNames.has /\ argumentName \notin argNames.names

\* A variant in which every excluded argument removes the field
excludedArgumentRemovesField_Always(arg) == TRUE

\* A variant in which an excluded argument never removes the field
excludedArgumentRemovesField_Never(arg) == FALSE

\* resolveField: an excluded argument of non-null type sets removeField
excludedArgumentRemovesField(arg) == isNonNullType(arg.type)

\* What the recursion records for the properties below: it is not read by
\* the synthesizer.
LogSkip(c, type) ==
  [c EXCEPT !.skipped = c.skipped \cup {[type |-> type, ancestors |-> c.ancestors]}]

\* A resolveField call for `field` of `type` that was entered with the stacks
\* of c and came back with rf
LogExit(c, type, field, rf) ==
  IF rf.c.threw THEN rf.c
  ELSE [rf.c EXCEPT !.exits = rf.c.exits \cup
          {[owner |-> type, field |-> field.name, r |-> rf.r,
            pathIn |-> c.path, ancestorsIn |-> c.ancestors,
            pathOut |-> rf.c.path, ancestorsOut |-> rf.c.ancestors]}]

RECURSIVE resolveField(_, _, _, _, _, _, _)
RECURSIVE resolveSelectionSet(_, _, _, _, _, _, _)

\* resolveField, one turn of the loop over field.args.
\* a = [c, args, removeField]; q holds the options of the call.
resolveArgument(a, q, arg, firstCall) ==
  IF a.c.threw \/ a.removeField THEN a
  ELSE
    LET argumentName == getArgumentName(arg.name, a.c.path)
    IN IF argumentExcluded(q.argNames, argumentName)
       THEN IF excludedArgumentRemovesField(arg)
            THEN [a EXCEPT !.removeField = TRUE]
            ELSE a
       ELSE
         Bind(IF firstCall THEN a.c
              ELSE addOperationVariable(resolveVariable(a.c, arg, argumentName)),
              LAMBDA c1 :
         Bind(CachedName(c1, arg.name), LAMBDA n :
         Bind(CachedVariable(n.c, argumentName), LAMBDA vv :
         Bind(getCachedNode(vv.c, [NewNode("Argument") EXCEPT
                                     !.name = n.r, !.valueNode = vv.r]), LAMBDA an :
           [a EXCEPT !.c = an.c, !.args = Append(a.args, an.r)]))))

\* resolveField, the loop over the first k of field.args; it is left at the
\* first argument that sets removeField
RECURSIVE resolveArguments(_, _, _, _, _)
resolveArguments(a, q, field, firstCall, k) ==
  IF k = 0 THEN a
  ELSE resolveArgument(resolveArguments(a, q, field, firstCall, k - 1),
                       q, field.args[k], firstCall)

\* resolveField from `if (removeField)` to the alias of baseField.
\* a is what the loop over field.args left; the result is
\* [c, args, removeField, name, alias].
resolveFieldName(a, type, field) ==
  LET call == [owner |-> type, field |-> field.name, path |-> a.c.path,
               removed |-> a.removeField]
      c0 == [a.c EXCEPT !.calls = a.c.calls \cup {call}]
      fieldPathStr == Join(Append(a.c.path, field.name), ".")
      currentFieldTypeStr == TypeToString(field.type)
      aliased == /\ FieldMapHas(a.c.fieldTypeMap, fieldPathStr)
                 /\ FieldMapGet(a.c.fieldTypeMap, fieldPathStr) # currentFieldTypeStr
      fieldName == IF aliased
                   THEN field.name \o SanitizedTypeString(field.type)
                   ELSE field.name
      c1 == [c0 EXCEPT !.fieldTypeMap =
                FieldMapSet(a.c.fieldTypeMap, fieldPathStr, currentFieldTypeStr)]
      none(c) == [c |-> c, args |-> a.args, removeField |-> a.removeField,
                  name |-> 0, alias |-> 0]
  IN IF a.c.threw THEN none(a.c)
     ELSE IF a.removeField THEN none(c0)
     ELSE
       Bind(CachedName(c1, field.name), LAMBDA n :
       Bind(IF fieldName # field.name THEN CachedName(n.c, fieldName)
            ELSE [c |-> n.c, r |-> 0], LAMBDA al :
         [c |-> al.c, args |-> a.args, removeField |-> FALSE,
          name |-> n.r, alias |-> al.r]))

\* resolveField from `if (!isScalarType(namedType) && !isEnumType(namedType))`
\* on; s is what resolveFieldName gave
resolveFieldNode(s, q, type, field, firstCall, depth, selectedFields) ==
  LET none == s.c.threw \/ s.removeField
      composite == /\ ~isScalarType(q.schema, getNamedType(field.type))
                   /\ ~isEnumType(q.schema, getNamedType(field.type))
      rs == resolveSelectionSet([s.c EXCEPT !.path = Append(s.c.path, field.name),
                                            !.ancestors = Append(s.c.ancestors, type)],
                                q, type, getNamedType(field.type), firstCall,
                                depth + 1, selectedFields)
  IN CASE none -> [c |-> s.c, r |-> 0]
       [] ~none /\ ~composite ->
            getCachedNode(s.c, [NewNode("Field") EXCEPT
                                  !.name = s.name, !.arguments = s.args,
                                  !.alias = s.alias])
       [] ~none /\ composite ->
            IF rs.c.threw THEN [c |-> rs.c, r |-> 0]
            ELSE getCachedNode([rs.c EXCEPT !.path = Front(rs.c.path),
                                            !.ancestors = Front(rs.c.ancestors)],
                               [NewNode("Field") EXCEPT
                                  !.name = s.name, !.arguments = s.args,
                                  !.alias = s.alias,
                                  !.hasSelectionSet = (rs.r # 0),
                                  !.selectionSet = rs.r])

\* resolveField({type, field, firstCall, depth, selectedFields, ...}):
\* [c, r], r the field node, 0 for null
resolveField(c, q, type, field, firstCall, depth, selectedFields) ==
  resolveFieldNode(
    resolveFieldName(
      resolveArguments([c |-> c, args |-> <<>>, removeField |-> FALSE],
                       q, field, firstCall, Len(field.args)),
      type, field),
    q, type, field, firstCall, depth, selectedFields)

\* The fan-out of resolveSelectionSet: the inline fragment on t with the
\* selection set rs.  m = [c, selections]
resolveMemberFragment(m, t, rs) ==
  Bind(CachedName(rs.c, t), LAMBDA n :
  Bind(getCachedNode(n.c, [NewNode("NamedType") EXCEPT !.name = n.r]),
       LAMBDA nt :
  Bind(getCachedNode(nt.c, [NewNode("InlineFragment") EXCEPT
                              !.typeCondition = nt.r,
                              !.hasSelectionSet = TRUE,
                              !.selectionSet = rs.r]), LAMBDA fr :
    [c |-> IF fr.c.threw /\ ~nt.c.threw
           THEN [fr.c EXCEPT !.thrownAt = <<t, fr.c.ancestors>>]
           ELSE fr.c,
     selections |-> Append(m.selections, fr.r)])))

\* The fan-out of resolveSelectionSet, the loop over the first k of `types`:
\* the members of the union, or the types of the schema's type map when
\* `type` is an interface.  m = [c, selections]
RECURSIVE resolveMembers(_, _, _, _, _, _, _, _)
resolveMembers(m, q, type, types, k, depth, selectedFields, isUnion) ==
  IF k = 0 THEN m
  ELSE
    LET prev == resolveMembers(m, q, type, types, k - 1, depth, selectedFields,
                               isUnion)
        t == types[k]
        member == isUnion \/ (isObjectType(q.schema, t)
                              /\ type \in TypeDef(q.schema, t).interfaces)
        circular == hasCircularRef(q.schema, Append(prev.c.ancestors, t),
                                   q.circularReferenceDepth)
        rs == resolveSelectionSet(prev.c, q, type, t, FALSE, depth, selectedFields)
    IN CASE prev.c.threw \/ ~member -> prev
         [] ~prev.c.threw /\ member /\ circular ->
              [prev EXCEPT !.c = LogSkip(prev.c, t)]
         [] ~prev.c.threw /\ member /\ ~circular ->
              IF rs.r # 0 /\ Len(rs.c.heap[rs.r].selections) = 0
              THEN [prev EXCEPT !.c = rs.c]
              ELSE resolveMemberFragment(prev, t, rs)

\* resolveSelectionSet for an object type, the loop over the first k fields
\* of the type.  m = [c, selections]
RECURSIVE resolveObjectFields(_, _, _, _, _, _)
resolveObjectFields(m, q, type, k, depth, selectedFields) ==
  IF k = 0 THEN m
  ELSE
    LET prev == resolveObjectFields(m, q, type, k - 1, depth, selectedFields)
        field == TypeDef(q.schema, type).fields[k]
        circular == hasCircularRef(q.schema,
                                   Append(prev.c.ancestors, getNamedType(field.type)),
                                   q.circularReferenceDepth)
        selected == SelTruthy(selectedSubFields(selectedFields, field.name))
        rf == resolveField([prev.c EXCEPT !.path = Append(prev.c.path, field.name)],
                           q, type, field, FALSE, depth,
                           selectedSubFields(selectedFields, field.name))
        keep == /\ rf.r # 0
                /\ (rf.c.heap[rf.r].hasSelectionSet =>
                      Len(rf.c.heap[rf.c.heap[rf.r].selectionSet].selections) > 0)
    IN CASE prev.c.threw -> prev
         [] ~prev.c.threw /\ circular ->
              [prev EXCEPT !.c = LogSkip(prev.c, getNamedType(field.type))]
         [] ~prev.c.threw /\ ~circular /\ ~selected -> prev
         [] ~prev.c.threw /\ ~circular /\ selected ->
              IF rf.c.threw THEN [prev EXCEPT !.c = rf.c]
              ELSE [c |-> [LogExit([prev.c EXCEPT !.path = Append(prev.c.path, field.name)],
                                   type, field, rf)
                             EXCEPT !.path = Front(rf.c.path)],
                    selections |-> IF keep THEN Append(prev.selections, rf.r)
                                   ELSE prev.selections]

\* resolveSelectionSet: ignore.includes(type.name) ||
\* ignore.includes(`${parent.name}.${path[path.length - 1]}`)
isIgnoredType(q, parent, type, path) ==
  \/ type \in q.ignore
  \/ (parent \o "." \o path[Len(path)]) \in q.ignore

\* resolveSelectionSet({parent, type, firstCall, depth, selectedFields, ...}):
\* [c, r], r the selection set node, 0 for undefined
resolveSelectionSet(c, q, parent, type, firstCall, depth, selectedFields) ==
  LET e == [type |-> type, parent |-> parent, ancestors |-> c.ancestors,
            path |-> c.path, depth |-> depth, firstCall |-> firstCall,
            boolean |-> selectedFields.t = "bool"]
      c0 == [c EXCEPT !.entries = c.entries \cup {e}]
      return(x) ==
        IF x.c.threw THEN x
        ELSE [c |-> [x.c EXCEPT !.returns =
                       x.c.returns \cup {[call |-> e, r |-> x.r,
                                           ancestors |-> x.c.ancestors,
                                           path |-> x.c.path]}],
              r |-> x.r]
      finish(m) ==
        IF m.c.threw THEN [c |-> m.c, r |-> 0]
        ELSE IF Len(m.selections) > 0
        THEN return(getCachedNode(m.c, [NewNode("SelectionSet") EXCEPT
                                          !.selections = m.selections]))
        ELSE return([c |-> m.c, r |-> 0])
      entered == ~c.threw /\ ~depthLimitReached(selectedFields, depth, q.depthLimit)
      object == isObjectType(q.schema, type) /\ type \notin q.rootTypeNames
      model == object /\ isModelShortCircuit(firstCall, type \in q.models,
                                             isIgnoredType(q, parent, type, c.path))
  IN CASE c.threw -> [c |-> c, r |-> 0]
       [] ~c.threw /\ ~entered -> return([c |-> c0, r |-> 0])
       [] entered /\ isUnionType(q.schema, type) ->
            finish(resolveMembers([c |-> c0, selections |-> <<>>], q, type,
                                  TypeDef(q.schema, type).members,
                                  Len(TypeDef(q.schema, type).members), depth,
                                  selectedFields, TRUE))
       [] entered /\ isInterfaceType(q.schema, type) ->
            finish(resolveMembers([c |-> c0, selections |-> <<>>], q, type,
                                  q.schema.order, Len(q.schema.order), depth,
                                  selectedFields, FALSE))
       [] entered /\ model -> return([c |-> c0, r |-> STATIC_ID_SELECTION_SET])
       [] entered /\ object /\ ~model ->
            finish(resolveObjectFields([c |-> c0, selections |-> <<>>], q, type,
                                       Len(TypeDef(q.schema, type).fields),
                                       depth, selectedFields))
       [] OTHER -> return([c |-> c0, r |-> 0])


\* buildOperationAndCollectVariables, one turn of the loop over the root
\* field's args
collectRootVariable(c, q, arg) ==
  IF c.threw THEN c
  ELSE IF ~q.argNames.has \/ arg.name \in q.argNames.names
  THEN addOperationVariable(resolveVariable(c, arg, arg.name))
  ELSE c

\* The loop over the first k of the root field's args
RECURSIVE collectRootVariables(_, _, _, _)
collectRootVariables(c, q, field, k) ==
  IF k = 0 THEN c
  ELSE collectRootVariable(collectRootVariables(c, q, field, k - 1), q, field.args[k])

\* The resolveField call for the root field, entered with both stacks empty
LogRootExit(type, field, rf) ==
  [c |-> LogExit([path |-> <<>>, ancestors |-> <<>>], type, field, rf), r |-> rf.r]

\* The operation node, which is not interned: its name and its one-element
\* selections array, rf being what resolveField gave for the root field
operationNode(rf, kind, operationName) ==
  [c |-> rf.c,
   r |-> [operation |-> kind, name |-> operationName,
          variableDefinitions |-> 0, selections |-> <<rf.r>>]]

\* buildOperationAndCollectVariables(...): [c, r], r the operation node
buildOperationAndCollectVariables(c, q, fieldName, kind) ==
  LET type == getDefinedRootType(q.schema, kind)
      field == FieldDef(q.schema, type, fieldName)
  IN operationNode(
       LogRootExit(type, field,
         resolveField([collectRootVariables(c, q, field, Len(field.args))
                         EXCEPT !.path = <<>>, !.ancestors = <<>>],
                      q, type, field, TRUE, 0, q.selectedFields)),
       kind, fieldName \o "_" \o kind)

\* The option values a caller passes: depthLimit and circularReferenceDepth
\* are 0 when not given, argNames.has is FALSE when argNames is not given.
SelectedFieldsOf(name) ==
  CASE name = "true" -> SelBool(TRUE)
    [] name = "lyrics" -> SelObject(<<<<"lyrics", SelBool(TRUE)>>>>)
    [] name = "titles" -> SelObject(<<<<"title", SelBool(TRUE)>>,
                                      <<"also", SelObject(<<<<"id", SelBool(TRUE)>>>>)>>>>)
    [] name = "nested" ->
         SelObject(<<<<"related",
                       SelObject(<<<<"other", SelObject(<<<<"id", SelBool(TRUE)>>>>)>>>>)>>,
                     <<"other", SelBool(TRUE)>>>>)

\* buildOperationNodeForField, the end: operationVariables is attached to
\* the operation node b, then both module variables are reset
attachVariables(b) ==
  IF b.c.threw THEN [c |-> b.c, threw |-> TRUE, r |-> b.r]
  ELSE [c |-> resetFieldMap(resetOperationVariables(b.c)),
        threw |-> FALSE,
        r |-> [b.r EXCEPT !.variableDefinitions = b.c.operationVariables]]

\* buildOperationNodeForField({schema, kind, field, models, ignore, depthLimit,
\* circularReferenceDepth, argNames, selectedFields}): the context after the
\* call and its outcome
buildOperationNodeForField(c, o) ==
  LET q == [schema |-> SchemaOf(o.schema),
            models |-> o.models,
            ignore |-> o.ignore,
            depthLimit |-> IF o.depthLimit # 0 THEN o.depthLimit ELSE Infinity,
            circularReferenceDepth |->
              IF o.circularReferenceDepth # 0 THEN o.circularReferenceDepth ELSE 1,
            argNames |-> o.argNames,
            selectedFields |-> SelectedFieldsOf(o.selectedFields),
            rootTypeNames |-> getRootTypeNames(SchemaOf(o.schema))]
  IN attachVariables(
       buildOperationAndCollectVariables(
         resetFieldMap(resetOperationVariables(c)), q, o.field, o.kind))

-----------------------------------------------------------------------------
(* The inputs of a call *)

ArgNamesNotGiven == [has |-> FALSE, names |-> {}]
AllowList(names) == [has |-> TRUE, names |-> names]

BlogArgNames ==
  {"first", "tag", "posts_comments_after", "posts_comments_limit",
   "posts_comments_sort", "posts_comments_comments_author_full"}

\* depthLimit and circularReferenceDepth: 0 stands for "not given"
DepthLimits == 0..MaxDepthLimit
CircularDepths == 0..MaxCircularDepth

Opt(schema, field, models, ignore, depthLimit, circular, argNames, selectedFields) ==
  [schema |-> schema, kind |-> "query", field |-> field, models |-> models,
   ignore |-> ignore, depthLimit |-> depthLimit,
   circularReferenceDepth |-> circular, argNames |-> argNames,
   selectedFields |-> selectedFields]

Options ==
  {Opt("users", "user", m, i, 0, 0, ArgNamesNotGiven, "true") :
     m \in {{}, {"User"}}, i \in {{}, {"User.friends"}}}
  \cup
  {Opt("tree", "t", m, {}, 0, c, ArgNamesNotGiven, "true") :
     m \in {{}, {"T"}, {"Query"}}, c \in CircularDepths}
  \cup
  {Opt("tree", "t", {}, {}, d, 0, ArgNamesNotGiven, "true") : d \in DepthLimits}
  \cup
  {Opt("blog", "posts", {}, {}, 0, 0, a, "true") :
     a \in {ArgNamesNotGiven, AllowList(BlogArgNames),
            AllowList(BlogArgNames \ {"tag"}),
            AllowList(BlogArgNames \ {"posts_comments_limit"}),
            AllowList(BlogArgNames \ {"posts_comments_after"}),
            AllowList({"first", "tag", "posts_comments_after",
                       "posts_comments_limit", "posts_comments_sort",
                       "posts_comments_author_full"})}}
  \cup
  {Opt("search", "search", {}, {}, 0, 0, ArgNamesNotGiven, sf) :
     sf \in {"true", "lyrics", "titles"}}
  \cup
  {Opt("search", f, {}, {}, d, 0, ArgNamesNotGiven, "true") :
     f \in {"search", "node"}, d \in DepthLimits}

\* Further option values, each used in a call of its own: the cyclic type
\* graphs under every circularReferenceDepth, a selectedFields tree
\* { related: { other: { id: true } }, other: true } under every depthLimit,
\* and the union with three members that have a field of the same name
CaseOptions ==
  {Opt(g, IF g = "loop" THEN "e" ELSE "t", {}, {}, 0, c, ArgNamesNotGiven, "true") :
     g \in {"loop", "tree"}, c \in CircularDepths}
  \cup
  {Opt("tree", "t", m, {}, d, 0, ArgNamesNotGiven, "nested") :
     m \in {{}, {"T"}}, d \in DepthLimits}
  \cup
  {Opt("media", "items", {}, {}, 0, 0, ArgNamesNotGiven, "true")}

\* The option values of the sequences of calls
SequenceOptions ==
  {Opt("blog", "posts", {}, {}, 0, 0, ArgNamesNotGiven, "true"),
   Opt("search", "search", {}, {}, 0, 0, ArgNamesNotGiven, "titles"),
   Opt("users", "user", {}, {}, 0, 0, ArgNamesNotGiven, "true"),
   Opt("search", "node", {}, {}, 0, 0, ArgNamesNotGiven, "true")}

-----------------------------------------------------------------------------
(* Reading a returned document against its schema *)

NameValue(hp, ref) == IF ref = 0 THEN "" ELSE hp[ref].value

\* The fields of the selection tree.  `owner` is the type the field belongs
\* to, `names` the field names from the root field down to this field, `path`
\* the contents of the path stack when resolveField resolved that position
\* (resolveSelectionSet pushes the field name, resolveField pushes it again
\* for the selection set below), `level` the number of enclosing fields.
RECURSIVE FieldsOfField(_, _, _, _, _, _, _)
RECURSIVE FieldsOfSelectionSet(_, _, _, _, _, _, _)
FieldsOfField(hp, schema, ref, owner, path, names, level) ==
  LET fname == NameValue(hp, hp[ref].name)
      known == HasField(schema, owner, fname)
      occ == [owner |-> owner, field |-> fname, path |-> path,
              names |-> Append(names, fname), level |-> level, ref |-> ref,
              alias |-> NameValue(hp, hp[ref].alias),
              arguments |->
                [i \in 1..Len(hp[ref].arguments) |->
                   [name |-> NameValue(hp, hp[hp[ref].arguments[i]].name),
                    variable |->
                      NameValue(hp, hp[hp[hp[ref].arguments[i]].valueNode].name)]],
              selectionSet |-> hp[ref].selectionSet]
  IN {occ} \cup
     (IF hp[ref].selectionSet # 0 /\ known
      THEN FieldsOfSelectionSet(hp, schema, hp[ref].selectionSet,
                                getNamedType(FieldDef(schema, owner, fname).type),
                                Append(path, fname), Append(names, fname), level + 1)
      ELSE {})

FieldsOfSelectionSet(hp, schema, ref, type, path, names, level) ==
  UNION {IF hp[s].kind = "Field"
         THEN FieldsOfField(hp, schema, s, type,
                            Append(path, NameValue(hp, hp[s].name)), names, level)
         ELSE IF hp[s].selectionSet = 0 THEN {}
         ELSE FieldsOfSelectionSet(hp, schema, hp[s].selectionSet,
                                   NameValue(hp, hp[hp[s].typeCondition].name),
                                   path, names, level)
         : s \in {hp[ref].selections[i] : i \in 1..Len(hp[ref].selections)}}

\* The selection sets of the tree: the type they select on, and for each
\* selection its kind and the type condition of an inline fragment.
RECURSIVE SelectionSetsBelow(_, _)
SelectionSetsBelow(hp, ref) ==
  IF ref = 0 THEN {}
  ELSE {ref} \cup
       UNION {SelectionSetsBelow(hp, hp[hp[ref].selections[i]].selectionSet) :
                i \in 1..Len(hp[ref].selections)}

\* A selection set that selects the field `id` and nothing else
IsIdOnly(hp, ref) ==
  /\ hp[ref].kind = "SelectionSet"
  /\ Len(hp[ref].selections) = 1
  /\ LET f == hp[hp[ref].selections[1]]
     IN /\ f.kind = "Field"
        /\ NameValue(hp, f.name) = "id"
        /\ f.alias = 0
        /\ f.arguments = <<>>
        /\ f.selectionSet = 0

\* The structure of the tree below a node, object identities and hash stamps
\* left out: <<>> for an absent child, else the node's kind, value and children
RECURSIVE Structure(_, _)
Structure(hp, ref) ==
  IF ref = 0 THEN <<>>
  ELSE <<hp[ref].kind, hp[ref].value,
         Structure(hp, hp[ref].name), Structure(hp, hp[ref].alias),
         [i \in 1..Len(hp[ref].arguments) |-> Structure(hp, hp[ref].arguments[i])],
         Structure(hp, hp[ref].valueNode), Structure(hp, hp[ref].variable),
         Structure(hp, hp[ref].type), Structure(hp, hp[ref].typeCondition),
         Structure(hp, hp[ref].selectionSet),
         [i \in 1..Len(hp[ref].selections) |-> Structure(hp, hp[ref].selections[i])]>>

\* The structure of a returned operation node: operation, name, variable
\* definitions in order, selections in order
DocumentStructure(hp, arrs, node) ==
  <<node.operation, node.name,
    [i \in 1..Len(arrs[node.variableDefinitions]) |->
       Structure(hp, arrs[node.variableDefinitions][i])],
    [i \in 1..Len(node.selections) |-> Structure(hp, node.selections[i])]>>

DocumentView(hp, schema, node) ==
  LET root == node.selections[1]
  IN [fields |-> IF root = 0 THEN {}
                 ELSE FieldsOfField(hp, schema, root, "Query", <<>>, <<>>, 0),
      selectionSets |-> IF root = 0 THEN {}
                        ELSE SelectionSetsBelow(hp, hp[root].selectionSet),
      idOnly |-> IF root = 0 THEN {}
                 ELSE {r \in SelectionSetsBelow(hp, hp[root].selectionSet) :
                         IsIdOnly(hp, r)}]

-----------------------------------------------------------------------------
(* The state machine *)

Context ==
  [heap |-> heap, nodeCache |-> nodeCache, upNumber |-> upNumber,
   h32Loaded |-> h32Loaded, arrays |-> arrays,
   operationVariables |-> operationVariables, fieldTypeMap |-> fieldTypeMap,
   ancestors |-> <<>>, path |-> <<>>, threw |-> FALSE, thrownAt |-> <<>>,
   entries |-> {}, returns |-> {}, exits |-> {}, skipped |-> {}, calls |-> {},
   registered |-> <<>>]

\* The state once both modules are loaded
Init ==
  /\ heap = ModuleLoad.c.heap
  /\ nodeCache = ModuleLoad.c.nodeCache
  /\ upNumber = ModuleLoad.c.upNumber
  /\ h32Loaded = FALSE
  /\ arrays = <<<<>>>>
  /\ operationVariables = 1
  /\ fieldTypeMap = <<>>
  /\ docs = <<>>
  /\ interned = <<>>

\* A caller calls buildOperationNodeForField(o) and keeps what it returns
Call(o) ==
  /\ \E b \in {buildOperationNodeForField(Context, o)} :
        /\ heap' = b.c.heap
        /\ nodeCache' = b.c.nodeCache
        /\ upNumber' = b.c.upNumber
        /\ arrays' = b.c.arrays
        /\ operationVariables' = b.c.operationVariables
        /\ fieldTypeMap' = b.c.fieldTypeMap
        /\ docs' = Append(docs,
             [status |-> IF b.threw THEN "threw" ELSE "returned",
              opts |-> o,
              node |-> b.r,
              current |-> TRUE,
              h32 |-> h32Loaded,
              entries |-> b.c.entries,
              returns |-> b.c.returns,
              exits |-> b.c.exits,
              skipped |-> b.c.skipped,
              calls |-> b.c.calls,
              thrownAt |-> b.c.thrownAt,
              registered |-> b.c.registered,
              view |-> DocumentView(b.c.heap, SchemaOf(o.schema), b.r),
              fresh |-> (nodeCache = <<>>),
              structure |-> IF b.threw THEN <<>>
                            ELSE DocumentStructure(b.c.heap, b.c.arrays, b.r)])
  /\ UNCHANGED <<h32Loaded, interned>>

\* cleanCacheNode(): a new cache lifetime begins, and the documents returned
\* so far belong to an earlier one
CleanCacheNode ==
  /\ heap' = CleanedHeap(heap, nodeCache)
  /\ nodeCache' = <<>>
  /\ upNumber' = 0
  /\ docs' = [i \in 1..Len(docs) |-> [docs[i] EXCEPT !.current = FALSE]]
  /\ interned' = [i \in 1..Len(interned) |-> [interned[i] EXCEPT !.current = FALSE]]
  /\ UNCHANGED <<h32Loaded, arrays, operationVariables, fieldTypeMap>>

\* The asynchronous initialisation of xxhash completes: h32 = api.h32
XxhashLoaded ==
  /\ ~h32Loaded
  /\ h32Loaded' = TRUE
  /\ UNCHANGED <<heap, nodeCache, upNumber, arrays, operationVariables,
                 fieldTypeMap, docs, interned>>

BuildOperationNodeForField(o) ==
  /\ Len(docs) < MaxCalls
  /\ Call(o)

Next ==
  \/ \E o \in Options : BuildOperationNodeForField(o)
  \/ CleanCacheNode
  \/ XxhashLoaded

Spec == Init /\ [][Next]_vars

\* Sequences of calls: a caller makes up to MaxSeqCalls calls, each with one
\* of a few option values
BuildNext(o) ==
  /\ Len(docs) < MaxSeqCalls
  /\ Call(o)

NextSeq ==
  \/ \E o \in SequenceOptions : BuildNext(o)
  \/ CleanCacheNode
  \/ XxhashLoaded

SpecSeq == Init /\ [][NextSeq]_vars

\* Single calls with the further option values
BuildCase(o) ==
  /\ Len(docs) < MaxCalls
  /\ Call(o)

NextCases ==
  \/ \E o \in CaseOptions : BuildCase(o)
  \/ CleanCacheNode
  \/ XxhashLoaded

SpecCases == Init /\ [][NextCases]_vars

-----------------------------------------------------------------------------
(* The cache used on its own: getCachedNode and cleanCacheNode are exported *)

\* AST objects a caller builds, appended to hp; the top node is the last one.
NameNode(value) == [NewNode("Name") EXCEPT !.value = value]

\* {kind: VARIABLE, name: {kind: NAME, value}}
VariableTree(hp, value) ==
  hp \o <<NameNode(value), [NewNode("Variable") EXCEPT !.name = Len(hp) + 1]>>

\* {kind: ARGUMENT, name: {kind: NAME, value: name}, value: <the variable $name>}
ArgumentTree(hp, name) ==
  VariableTree(hp, name)
  \o <<NameNode(name),
       [NewNode("Argument") EXCEPT !.name = Len(hp) + 3, !.valueNode = Len(hp) + 2]>>

\* {kind: FIELD, name, arguments: [<argument first>, <argument second>]}
FieldTree(hp, name, first, second) ==
  ArgumentTree(ArgumentTree(hp, first), second)
  \o <<NameNode(name),
       [NewNode("Field") EXCEPT !.name = Len(hp) + 9,
                                !.arguments = <<Len(hp) + 4, Len(hp) + 8>>]>>

\* {kind: FIELD, name: {kind: NAME, value: name}}
LeafFieldTree(hp, name) ==
  hp \o <<NameNode(name), [NewNode("Field") EXCEPT !.name = Len(hp) + 1]>>

\* {kind: SELECTION_SET, selections: [f1, ..., fn]}, n = MAX_ARRARY_LENGTH
RECURSIVE LeafFields(_, _)
LeafFields(hp, n) ==
  IF n = 0 THEN hp ELSE LeafFieldTree(LeafFields(hp, n - 1), "f" \o ToString(n))

WideSelectionSet(hp) ==
  Append(LeafFields(hp, MAX_ARRARY_LENGTH),
         [NewNode("SelectionSet") EXCEPT
            !.selections = [i \in 1..MAX_ARRARY_LENGTH |-> Len(hp) + 2 * i]])

NodeShapes ==
  {"name id", "name k", "variable k", "field f(a, b)", "field f(b, a)",
   "selection set of 8"}

NodeTree(hp, shape) ==
  CASE shape = "name k" -> Append(hp, NameNode("k"))
    [] shape = "name id" -> Append(hp, NameNode("id"))
    [] shape = "variable k" -> VariableTree(hp, "k")
    [] shape = "field f(a, b)" -> FieldTree(hp, "f", "a", "b")
    [] shape = "field f(b, a)" -> FieldTree(hp, "f", "b", "a")
    [] shape = "selection set of 8" -> WideSelectionSet(hp)

\* A variant of the lookup that finds a stored node under the hash alone,
\* whatever its kind
internNode_AnyKind(cache, ref, g) ==
  LET kind == g.heap[ref].kind
      stamped == [g.heap EXCEPT ![ref].hash = IF @ = NoHash THEN g.hash ELSE @]
      holders == {kk \in DOMAIN cache : CacheHas(cache, kk, g.hash)}
  IN IF g.threw THEN [heap |-> g.heap, nodeCache |-> cache, up |-> g.up, r |-> 0]
     ELSE IF holders # {}
     THEN [heap |-> stamped, nodeCache |-> cache, up |-> g.up,
           r |-> CacheGet(cache, CHOOSE kk \in holders : TRUE, g.hash)]
     ELSE [heap |-> stamped, nodeCache |-> CachePut(cache, kind, g.hash, ref),
           up |-> g.up, r |-> ref]

\* getCachedNode(node) from `const kind = node.kind` on, for an object the
\* caller holds (g.heap[ref]); g is what getNodeHash(node) gave
internNode(cache, ref, g) ==
  LET kind == g.heap[ref].kind
      stamped == [g.heap EXCEPT ![ref].hash = IF @ = NoHash THEN g.hash ELSE @]
  IN IF g.threw THEN [heap |-> g.heap, nodeCache |-> cache, up |-> g.up, r |-> 0]
     ELSE IF CacheHas(cache, kind, g.hash)
     THEN [heap |-> stamped, nodeCache |-> cache, up |-> g.up,
           r |-> CacheGet(cache, kind, g.hash)]
     ELSE [heap |-> stamped, nodeCache |-> CachePut(cache, kind, g.hash, ref),
           up |-> g.up, r |-> ref]

\* A caller calls getCachedNode(hp[ref]) and keeps what it returns
CallGetCachedNode(hp, ref, shape) ==
  \E g \in {getNodeHash(h32Loaded,
              buildStructuralSignature(hp, upNumber, h32Loaded, hp[ref]))} :
    \E b \in {internNode(nodeCache, ref, g)} :
      /\ heap' = b.heap
      /\ nodeCache' = b.nodeCache
      /\ upNumber' = b.up
      /\ interned' = Append(interned,
           [node |-> ref, shape |-> shape, kind |-> hp[ref].kind,
            signature |-> Join(buildStructuralSignature(hp, upNumber, h32Loaded,
                                                        hp[ref]).parts, ","),
            arguments |-> hp[ref].arguments,
            hash |-> g.hash, loaded |-> h32Loaded, r |-> b.r, before |-> nodeCache,
            after |-> b.nodeCache, current |-> TRUE])
      /\ UNCHANGED <<h32Loaded, arrays, operationVariables, fieldTypeMap, docs>>

\* getCachedNode(n) for an object n just built
GetCachedNode(shape) ==
  /\ Len(interned) < MaxInterned
  /\ CallGetCachedNode(NodeTree(heap, shape), Len(NodeTree(heap, shape)), shape)

\* getCachedNode(n) for an object n that was passed to it before
GetCachedNodeAgain(k) ==
  /\ Len(interned) < MaxInterned
  /\ CallGetCachedNode(heap, interned[k].node, interned[k].shape)

NextCache ==
  \/ \E shape \in NodeShapes : GetCachedNode(shape)
  \/ \E k \in 1..Len(interned) : GetCachedNodeAgain(k)
  \/ CleanCacheNode
  \/ XxhashLoaded

SpecCache == Init /\ [][NextCache]_vars

-----------------------------------------------------------------------------
(* Properties *)

Returned == {k \in 1..Len(docs) : docs[k].status = "returned"}
SchemaOfDoc(k) == SchemaOf(docs[k].opts.schema)
CircularDepthOf(k) ==
  IF docs[k].opts.circularReferenceDepth # 0
  THEN docs[k].opts.circularReferenceDepth ELSE 1
DepthLimitOf(k) ==
  IF docs[k].opts.depthLimit # 0 THEN docs[k].opts.depthLimit ELSE Infinity
Count(seq, x) == Cardinality({i \in 1..Len(seq) : seq[i] = x})
ArgumentsOf(k, occ) == FieldDef(SchemaOfDoc(k), occ.owner, occ.field).args
EmittedArgumentNames(occ) ==
  {occ.arguments[i].name : i \in 1..Len(occ.arguments)}

\* C1: with an argument allow-list, a field that has a non-null argument
\* whose path-qualified name is not in the list appears in no selection set
\* of the returned document: every field of the document, the root field
\* included, has each of its non-null arguments in the list and emitted.
C1_RequiredArgumentDrop ==
  \A k \in Returned :
    docs[k].opts.argNames.has =>
      \A occ \in docs[k].view.fields :
        \A i \in 1..Len(ArgumentsOf(k, occ)) :
          LET arg == ArgumentsOf(k, occ)[i]
          IN isNonNullType(arg.type) =>
               /\ getArgumentName(arg.name, occ.path) \in docs[k].opts.argNames.names
               /\ arg.name \in EmittedArgumentNames(occ)

\* A document in which a nested field was dropped for an excluded required
\* argument while its parent and the parent's other fields were emitted
C1_Witness ==
  \E k \in Returned :
    /\ docs[k].opts.argNames.has
    /\ \E call \in docs[k].calls :
         /\ call.removed
         /\ call.field = "comments"
         /\ \A occ \in docs[k].view.fields : occ.field # "comments"
    /\ \E occ \in docs[k].view.fields : occ.names = <<"posts", "id">>

\* C2: for T.related: T, circularReferenceDepth 1, no models and no depth
\* limit, no selection path of the document goes through `related` more than
\* once: the T below `related` has no `related` selection.
C2_CycleTruncation ==
  \A k \in Returned :
    (/\ docs[k].opts.schema = "tree"
     /\ CircularDepthOf(k) = 1
     /\ docs[k].opts.models = {}
     /\ docs[k].opts.depthLimit = 0) =>
      \A occ \in docs[k].view.fields : Count(occ.names, "related") <= 1

\* Such a document, with the one descent through `related` in it and the
\* second one omitted
C2_Witness ==
  \E k \in Returned :
    /\ docs[k].opts.schema = "tree"
    /\ CircularDepthOf(k) = 1
    /\ docs[k].opts.models = {}
    /\ docs[k].opts.depthLimit = 0
    /\ \E occ \in docs[k].view.fields : occ.names = <<"t", "related", "id">>
    /\ \E sk \in docs[k].skipped :
         sk.type = "T" /\ sk.ancestors = <<"Query", "T">>

\* C3 (as amended): at every entry to resolveSelectionSet for a type, the
\* name of that type occurs in the ancestors stack at most
\* circularReferenceDepth times; and the error a call may end with is never
\* raised for a circular member.
C3_EnteredTypeBounded ==
  \A k \in 1..Len(docs) :
    /\ \A e \in docs[k].entries :
         Count(e.ancestors, e.type) <= CircularDepthOf(k)
    /\ docs[k].status = "threw" =>
         /\ docs[k].thrownAt # <<>>
         /\ ~hasCircularRef(SchemaOfDoc(k),
                            Append(docs[k].thrownAt[2], docs[k].thrownAt[1]),
                            CircularDepthOf(k))

\* An entry that reaches the bound, in a call that omitted a circular field
\* and returned
C3_Witness ==
  \E k \in Returned :
    /\ docs[k].skipped # {}
    /\ \E e \in docs[k].entries :
         Count(e.ancestors, e.type) = CircularDepthOf(k)

\* C3 as stated: at every entry to resolveSelectionSet no type name occurs in
\* the ancestors stack more than circularReferenceDepth times.
C3_NoTypeBeyondDepth ==
  \A k \in 1..Len(docs) :
    \A e \in docs[k].entries :
      \A i \in 1..Len(e.ancestors) :
        Count(e.ancestors, e.ancestors[i]) <= CircularDepthOf(k)

\* C4: when selectedFields is a boolean and depthLimit = L >= 1, every field
\* of the returned document is at nesting level at most L (root field 0, one
\* more per field, none for an inline fragment).
C4_DepthLimit ==
  \A k \in Returned :
    (docs[k].opts.selectedFields = "true" /\ docs[k].opts.depthLimit >= 1) =>
      \A occ \in docs[k].view.fields : occ.level <= docs[k].opts.depthLimit

\* A document cut at depthLimit 1: a composite field at level 1 is there and
\* has no selection set, because the call below it was over the limit
C4_Witness ==
  \E k \in Returned :
    /\ docs[k].opts.selectedFields = "true"
    /\ docs[k].opts.depthLimit = 1
    /\ \E occ \in docs[k].view.fields :
         /\ occ.level = 1
         /\ occ.selectionSet = 0
         /\ ~isScalarType(SchemaOfDoc(k),
               getNamedType(FieldDef(SchemaOfDoc(k), occ.owner, occ.field).type))
    /\ \E rec \in docs[k].returns : rec.call.depth = 2 /\ rec.r = 0

SelectedNames(ref) ==
  {NameValue(heap, heap[heap[ref].selections[i]].name) :
     i \in 1..Len(heap[ref].selections)}

\* A call of resolveSelectionSet for a model type that is not ignored and is
\* within the depth limit
ModelCall(k, e) ==
  /\ isObjectType(SchemaOfDoc(k), e.type)
  /\ e.type \in docs[k].opts.models
  /\ ~(e.boolean /\ e.depth > DepthLimitOf(k))
  /\ e.type \notin docs[k].opts.ignore
  /\ (e.parent \o "." \o e.path[Len(e.path)]) \notin docs[k].opts.ignore

ScenarioA(k) ==
  /\ docs[k].opts.schema = "users"
  /\ docs[k].opts.models = {"User"}
  /\ docs[k].opts.ignore = {}

ExpandedFieldByField(k, rec) ==
  /\ rec.r # 0
  /\ \A i \in 1..Len(TypeDef(SchemaOfDoc(k), rec.call.type).fields) :
       LET f == TypeDef(SchemaOfDoc(k), rec.call.type).fields[i]
       IN (isScalarType(SchemaOfDoc(k), getNamedType(f.type)) /\ f.args = <<>>)
            => f.name \in SelectedNames(rec.r)

\* C5 (as amended): an object type that is listed in models and is not a
\* root operation type, reached other than by the first call, within the
\* depth limit and not ignored, gets exactly the selection { id }; reached
\* as the return type of the root field it is expanded field by field; and
\* for Query.user: User, User {id, name, friends: [User]}, models [User] the
\* document is user { id name friends { id } }.
C5_ModelShortCircuit ==
  \A k \in Returned :
    /\ \A rec \in docs[k].returns :
         (ModelCall(k, rec.call)
          /\ rec.call.type \notin getRootTypeNames(SchemaOfDoc(k))) =>
            IF rec.call.firstCall
            THEN ExpandedFieldByField(k, rec)
            ELSE rec.r # 0 /\ IsIdOnly(heap, rec.r)
    /\ ScenarioA(k) =>
         /\ {occ.names : occ \in docs[k].view.fields} =
              {<<"user">>, <<"user", "id">>, <<"user", "name">>,
               <<"user", "friends">>, <<"user", "friends", "id">>}
         /\ \A occ \in docs[k].view.fields :
              occ.names = <<"user", "friends">> => IsIdOnly(heap, occ.selectionSet)

\* The document of the scenario, with the collapsed `friends` in it
C5_Witness ==
  \E k \in Returned :
    /\ ScenarioA(k)
    /\ \E rec \in docs[k].returns :
         /\ ModelCall(k, rec.call)
         /\ ~rec.call.firstCall
         /\ rec.call.path = <<"user", "friends", "friends">>
         /\ rec.r = STATIC_ID_SELECTION_SET

\* C5 as stated: every object type listed in models, a root operation type
\* included, gets { id } when reached other than by the first call.
C5_EveryModelType ==
  \A k \in Returned :
    \A rec \in docs[k].returns :
      (ModelCall(k, rec.call) /\ ~rec.call.firstCall) =>
        rec.r # 0 /\ IsIdOnly(heap, rec.r)

VariableDefinitionsOf(k) == arrays[docs[k].node.variableDefinitions]
VariableDefinitionName(ref) == NameValue(heap, heap[heap[ref].variable].name)
VariableDefinitionNames(k) ==
  {VariableDefinitionName(VariableDefinitionsOf(k)[j]) :
     j \in 1..Len(VariableDefinitionsOf(k))}

\* The name f1_..._fk_a of an argument a of the field reached by f1, ..., fk;
\* the bare name for the root field
QualifiedName(names, a) ==
  IF Len(names) = 1 THEN a ELSE Join(Append(names, a), "_")

\* C6: for the field reached by the field names f1, ..., fk and its argument
\* a, the variable the argument node refers to and a registered variable
\* definition are named f1_..._fk_a (the bare a for the root field), for
\* every k.
C6_PathQualifiedNames ==
  \A k \in Returned :
    \A occ \in docs[k].view.fields :
      \A i \in 1..Len(occ.arguments) :
        /\ occ.arguments[i].variable = QualifiedName(occ.names, occ.arguments[i].name)
        /\ QualifiedName(occ.names, occ.arguments[i].name) \in VariableDefinitionNames(k)

\* C7: in every returned document the variable definitions have pairwise
\* distinct names, and two different schema arguments never share a variable
\* name, also across the members of a union or the implementations of an
\* interface.
C7_DistinctVariableNames ==
  \A k \in Returned :
    /\ \A i, j \in 1..Len(VariableDefinitionsOf(k)) :
         i # j => VariableDefinitionName(VariableDefinitionsOf(k)[i])
                    # VariableDefinitionName(VariableDefinitionsOf(k)[j])
    /\ \A o1, o2 \in docs[k].view.fields :
         \A i \in 1..Len(o1.arguments), j \in 1..Len(o2.arguments) :
           <<o1.owner, o1.field, o1.arguments[i].name>>
             # <<o2.owner, o2.field, o2.arguments[j].name>>
           => o1.arguments[i].variable # o2.arguments[j].variable

\* The member types a fan-out for `type` goes through, in order
MembersOf(schema, type) ==
  IF isUnionType(schema, type) THEN TypeDef(schema, type).members
  ELSE SelectSeq(schema.order,
                 LAMBDA t : /\ isObjectType(schema, t)
                            /\ type \in TypeDef(schema, t).interfaces)

IsFanOut(k, e) ==
  /\ \/ isUnionType(SchemaOfDoc(k), e.type)
     \/ isInterfaceType(SchemaOfDoc(k), e.type)
  /\ ~(e.boolean /\ e.depth > DepthLimitOf(k))

\* The call of resolveSelectionSet for member t made by the fan-out call e
IsMemberCall(e, t, m) ==
  /\ m.type = t
  /\ m.parent = e.type
  /\ m.ancestors = e.ancestors
  /\ m.path = e.path
  /\ m.depth = e.depth

\* Member t of the fan-out call e is not circular and its own selection set
\* is non-empty
Contributes(k, e, t) ==
  /\ ~hasCircularRef(SchemaOfDoc(k), Append(e.ancestors, t), CircularDepthOf(k))
  /\ \E rec \in docs[k].returns :
       /\ IsMemberCall(e, t, rec.call)
       /\ rec.r # 0
       /\ Len(heap[rec.r].selections) > 0

FragmentTypes(ref) ==
  IF ref = 0 THEN <<>>
  ELSE [i \in 1..Len(heap[ref].selections) |->
          NameValue(heap, heap[heap[heap[ref].selections[i]].typeCondition].name)]

\* C8: a call of resolveSelectionSet for a union or an interface returns, and
\* what it returns has exactly one inline fragment per member that is not
\* circular and whose own selection set is non-empty, keyed by the member's
\* name (nothing when no member contributes); a member whose selection set is
\* empty or absent contributes none.
C8_OneFragmentPerMember ==
  \A k \in 1..Len(docs) :
    \A e \in docs[k].entries :
      IsFanOut(k, e) =>
        \E rec \in docs[k].returns :
          /\ rec.call = e
          /\ FragmentTypes(rec.r) =
               SelectSeq(MembersOf(SchemaOfDoc(k), e.type),
                         LAMBDA t : Contributes(k, e, t))

\* C9: in a sequence of calls that all ran to completion, the
\* variableDefinitions of the k-th document is the list of the variables
\* registered during the k-th call, in every later state too, and between
\* calls the variable accumulator and the field-type map are empty.
C9_NoLeakBetweenCalls ==
  (\A k \in 1..Len(docs) : docs[k].status = "returned") =>
    /\ \A k \in 1..Len(docs) : VariableDefinitionsOf(k) = docs[k].registered
    /\ arrays[operationVariables] = <<>>
    /\ fieldTypeMap = <<>>

\* Two calls that ran to completion, each with variables of its own
C9_Witness ==
  /\ Len(docs) = 2
  /\ \A k \in 1..2 :
       /\ docs[k].status = "returned"
       /\ docs[k].registered # <<>>
  /\ docs[1].opts # docs[2].opts
  /\ VariableDefinitionNames(1) \cap VariableDefinitionNames(2) = {}

\* The identifier-only selection sets of the documents synthesized since the
\* cache was last cleaned
CurrentIdOnlySets ==
  UNION {docs[k].view.idOnly : k \in {j \in Returned : docs[j].current}}

\* C10: within a cache lifetime any two identifier-only selection sets of the
\* synthesized documents are the same object, whether they are
\* STATIC_ID_SELECTION_SET or come from expanding a type whose only selected
\* field is id.
C10_OneIdOnlyInstance ==
  \A r1, r2 \in CurrentIdOnlySets : r1 = r2

-----------------------------------------------------------------------------
(* The cache on its own *)

\* The getCachedNode calls of the current cache lifetime that returned
CurrentInterned == {k \in 1..Len(interned) : interned[k].current /\ interned[k].r # 0}

\* The first call of the current lifetime made with the kind and hash of call k
FirstWithKey(k) ==
  CHOOSE j \in CurrentInterned :
    /\ interned[j].kind = interned[k].kind
    /\ interned[j].hash = interned[k].hash
    /\ \A i \in CurrentInterned :
         (interned[i].kind = interned[k].kind /\ interned[i].hash = interned[k].hash)
           => j <= i

\* C11: between two cleanCacheNode calls the lookup of getCachedNode(n) is
\* keyed by (n.kind, hash(n)): the call returns the node stored under that key
\* when there is one, and otherwise stores n and returns n itself; the node
\* first stored under a key is the one every later call with that key returns;
\* no call removes or replaces a stored entry; the returned node has the kind
\* of n, also when a node of another kind has the same hash.
C11_KeyedByKindAndHash ==
  \A k \in CurrentInterned :
    LET e == interned[k]
        first == interned[FirstWithKey(k)]
    IN /\ e.r = IF CacheHas(e.before, e.kind, e.hash)
                THEN CacheGet(e.before, e.kind, e.hash)
                ELSE e.node
       /\ ~CacheHas(first.before, e.kind, e.hash) => e.r = first.node
       /\ heap[e.r].kind = e.kind
       /\ \A kind \in DOMAIN e.before :
            kind \in DOMAIN e.after /\ e.before[kind] \subseteq e.after[kind]
       /\ \A kind \in DOMAIN e.after :
            \A x, y \in e.after[kind] : x[1] = y[1] => x = y
       /\ CacheHas(e.after, e.kind, e.hash) /\ CacheGet(e.after, e.kind, e.hash) = e.r
       /\ (k > 1 /\ interned[k - 1].current) => e.before = interned[k - 1].after
       /\ k = Len(interned) => e.after = nodeCache

\* Two nodes of different kinds with equal hashes were interned in one cache
\* lifetime, each is its own canonical instance, and a third call hit one of them
C11_Witness ==
  \E i, j, k \in CurrentInterned :
    /\ i < j /\ j < k
    /\ interned[i].kind # interned[j].kind
    /\ interned[i].hash = interned[j].hash
    /\ interned[i].r = interned[i].node
    /\ interned[j].r = interned[j].node
    /\ interned[k].node # interned[j].node
    /\ interned[k].r = interned[j].node

\* C12: cleanCacheNode leaves no entry in any kind partition and no hash
\* stamp on any node the cache held; the first getCachedNode(n) after it
\* finds nothing and returns n itself, whatever had been interned before.
C12_ResetEmptiesCache ==
  /\ [](\A k \in 1..Len(interned) :
          (interned[k].before = <<>> /\ interned[k].r # 0)
            => /\ interned[k].r = interned[k].node
               /\ StoredNodes(interned[k].after) = {interned[k].node})
  /\ [][CleanCacheNode =>
          /\ StoredNodes(nodeCache') = {}
          /\ DOMAIN nodeCache' = {}
          /\ \A r \in StoredNodes(nodeCache) : heap'[r].hash = NoHash]_vars

\* A node equal to the one interned at module load, and a node that was
\* itself stored before the reset, are each returned as passed in by the first
\* call after a reset
C12_Witness ==
  \E i, k \in 1..Len(interned) :
    /\ i < k
    /\ ~interned[i].current /\ interned[k].current
    /\ interned[i].shape = "name id" /\ interned[i].r # interned[i].node
    /\ interned[k].before = <<>>
    /\ interned[k].r = interned[k].node
    /\ \/ interned[k].shape = "name id"
       \/ interned[k].node \in StoredNodes(interned[i].after)

-----------------------------------------------------------------------------
(* Determinism *)

\* The calls that were made on a cache just reset and that returned
FreshReturned == {k \in Returned : docs[k].fresh}

\* C13: two calls with the same schema, field, operation kind and options,
\* each made right after cleanCacheNode, return structurally identical
\* documents: same operation name, same variable definitions in the same
\* order, same selection tree with its aliases and arguments.
C13_Deterministic ==
  \A i, j \in FreshReturned :
    docs[i].opts = docs[j].opts => docs[i].structure = docs[j].structure

\* Two such calls were made, with xxhash loading in between, and the document
\* has an aliased field and a variable definition
C13_Witness ==
  \E i, j \in FreshReturned :
    /\ i < j
    /\ docs[i].opts = docs[j].opts
    /\ docs[i].h32 # docs[j].h32
    /\ \E occ \in docs[j].view.fields : occ.alias # ""
    /\ docs[j].registered # <<>>

-----------------------------------------------------------------------------
(* Exceptions *)

\* C14: every buildOperationNodeForField call on an existing root field
\* returns a document; no call throws: a circular reference, an excluded
\* required argument, a union or interface member without selectable fields
\* and a selection set that resolves to nothing only leave a node out.
C14_NeverThrows ==
  \A k \in 1..Len(docs) :
    HasField(SchemaOfDoc(k), "Query", docs[k].opts.field)
      => docs[k].status = "returned"

-----------------------------------------------------------------------------
(* Termination *)

\* The composite types of the schema of call k
TypeNamesOf(k) == {SchemaOfDoc(k).order[i] : i \in 1..Len(SchemaOfDoc(k).order)}

\* C15: every call runs to its end, on type graphs with cycles through
\* object, union and interface types too, for every circularReferenceDepth
\* >= 1, with or without a depthLimit and models.  The recursion is bounded
\* by the ancestors stack: at every entry to resolveSelectionSet no type
\* occurs in it more than circularReferenceDepth + 1 times, so the stack, and
\* with it the nesting of the recursion, is never longer than the number of
\* types times (circularReferenceDepth + 1).
C15_Terminates ==
  \A k \in 1..Len(docs) :
    /\ docs[k].status \in {"returned", "threw"}
    /\ \A e \in docs[k].entries :
         /\ \A t \in TypeNamesOf(k) :
              Count(e.ancestors, t) <= CircularDepthOf(k) + 1
         /\ Len(e.ancestors) <= Cardinality(TypeNamesOf(k)) * (CircularDepthOf(k) + 1)
         /\ e.depth <= Len(e.ancestors)

\* A call on the cyclic type graph without depthLimit and models returned;
\* it came back to the interface and to the union from inside the type A that
\* implements the one and is a member of the other, until the bound on A
\* was reached and A was left out
C15_Witness ==
  \E k \in Returned :
    /\ docs[k].opts.schema = "loop"
    /\ docs[k].opts.depthLimit = 0 /\ docs[k].opts.models = {}
    /\ \E e \in docs[k].entries :
         Count(e.ancestors, "A") = CircularDepthOf(k)
    /\ \E e \in docs[k].entries : e.type = "Ent" /\ Count(e.ancestors, "A") >= 1
    /\ \E e \in docs[k].entries : e.type = "U" /\ Count(e.ancestors, "A") >= 1
    /\ \E e \in docs[k].entries : e.type = "B"
    /\ \E sk \in docs[k].skipped : sk.type = "A"

-----------------------------------------------------------------------------
(* selectedFields given as an object tree *)

SelectedTreeOf(k) == SelectedFieldsOf(docs[k].opts.selectedFields)

\* The selectedFields value reached from the tree sf along names[2..j + 1],
\* names[1] being the root field, whose selection set gets the whole tree
RECURSIVE EntryAt(_, _, _)
EntryAt(sf, names, j) ==
  IF j = 0 THEN sf ELSE selectedSubFields(EntryAt(sf, names, j - 1), names[j + 1])

\* The id field of the identifier-only selection that stands for a model type
IsModelId(k, occ) ==
  /\ occ.field = "id"
  /\ occ.owner \in docs[k].opts.models
  /\ occ.level >= 2
  /\ \A j \in 1..(occ.level - 1) : SelTruthy(EntryAt(SelectedTreeOf(k), occ.names, j))

\* The scalar fields the tree covers by nested object entries alone, as name
\* chains from the root field: a model type on the way stands for its id, a
\* circular field and a root type are left out
RECURSIVE CoveredLeaves(_, _, _, _, _, _)
CoveredLeaves(k, type, sf, names, ancestors, first) ==
  IF ~isObjectType(SchemaOfDoc(k), type) \/ type \in getRootTypeNames(SchemaOfDoc(k))
     \/ sf.t # "obj"
  THEN {}
  ELSE IF ~first /\ type \in docs[k].opts.models THEN {Append(names, "id")}
  ELSE UNION {
    LET f == TypeDef(SchemaOfDoc(k), type).fields[i]
        entry == selectedSubFields(sf, f.name)
    IN IF ~SelTruthy(entry)
          \/ hasCircularRef(SchemaOfDoc(k), Append(ancestors, getNamedType(f.type)),
                            CircularDepthOf(k))
       THEN {}
       ELSE IF isScalarType(SchemaOfDoc(k), getNamedType(f.type))
       THEN {Append(names, f.name)}
       ELSE CoveredLeaves(k, getNamedType(f.type), entry, Append(names, f.name),
                          Append(ancestors, type), FALSE)
    : i \in 1..Len(TypeDef(SchemaOfDoc(k), type).fields)}

ObjectTreeCalls == {k \in Returned : SelectedTreeOf(k).t = "obj"}

-----------------------------------------------------------------------------
(* The shared stacks *)

\* The field names on a path stack: the root field once, every field below
\* it twice (pushed by resolveSelectionSet and again by resolveField)
PathFieldNames(path) ==
  [i \in 1..((Len(path) + 1) \div 2) |-> IF i = 1 THEN path[1] ELSE path[2 * (i - 1)]]

\* A field of type t leads to the type o: o is t, a member of the union t or
\* an implementation of the interface t
LeadsTo(schema, t, o) ==
  \/ t = o
  \/ isUnionType(schema, t)
     /\ \E i \in 1..Len(TypeDef(schema, t).members) : TypeDef(schema, t).members[i] = o
  \/ isInterfaceType(schema, t) /\ isObjectType(schema, o)
     /\ t \in TypeDef(schema, o).interfaces

\* ancestors holds the owner types of the fields named on path, and nothing else
OwnersOfPath(schema, ancestors, path, type) ==
  LET names == PathFieldNames(path)
      fieldType(i) == getNamedType(FieldDef(schema, ancestors[i], names[i]).type)
  IN /\ Len(ancestors) = Len(names)
     /\ Len(ancestors) >= 1 => ancestors[1] = "Query"
     /\ \A i \in 1..Len(ancestors) :
          /\ HasField(schema, ancestors[i], names[i])
          /\ i < Len(ancestors) => LeadsTo(schema, fieldType(i), ancestors[i + 1])
          /\ i = Len(ancestors) => LeadsTo(schema, fieldType(i), type)

\* C17: every resolveField call and every resolveSelectionSet call that
\* returns leaves ancestors and path as it found them, whatever it returns
\* (a node, null for a field with an excluded required argument, undefined at
\* the depth limit, after circular skips or for an empty selection); so at
\* every entry to resolveSelectionSet, and at every circular check, ancestors
\* is the list of the owner types of the fields on the current path.
C17_StacksRestored ==
  \A k \in 1..Len(docs) :
    /\ \A rec \in docs[k].returns :
         rec.ancestors = rec.call.ancestors /\ rec.path = rec.call.path
    /\ \A x \in docs[k].exits :
         x.ancestorsOut = x.ancestorsIn /\ x.pathOut = x.pathIn
    /\ \A e \in docs[k].entries :
         OwnersOfPath(SchemaOfDoc(k), e.ancestors, e.path, e.type)
    /\ \A sk \in docs[k].skipped :
         \E e \in docs[k].entries : e.ancestors = sk.ancestors

\* A call in which resolveField came back null for Post.comments, whose
\* required argument was excluded, with both stacks as on entry; the selection
\* set of Post and the root field were then completed on the restored stacks
C17_Witness ==
  \E k \in Returned :
    /\ \E x \in docs[k].exits :
         /\ x.r = 0 /\ x.field = "comments"
         /\ x.ancestorsOut = <<"Query">> /\ x.pathOut = <<"posts", "comments">>
    /\ \E rec \in docs[k].returns :
         rec.r # 0 /\ rec.call.type = "Post" /\ rec.path = <<"posts">>
    /\ \E x \in docs[k].exits :
         x.r # 0 /\ x.field = "posts" /\ x.ancestorsOut = <<>> /\ x.pathOut = <<>>

-----------------------------------------------------------------------------
(* Aliases *)

\* The name under which a field of the document appears in a response
ResponseName(occ) == IF occ.alias # "" THEN occ.alias ELSE occ.field

\* The return type of the field as the schema prints it
TypeStringOf(k, occ) == TypeToString(FieldDef(SchemaOfDoc(k), occ.owner, occ.field).type)

\* The fields of document k that sit at the same field path as occ
SamePath(k, occ) == {other \in docs[k].view.fields : other.names = occ.names}

\* C18: an alias is the field name followed by the sanitized type string and
\* is given only to a field at whose path a field with another return type
\* was resolved; a field at whose path no other return type was resolved has
\* no alias; and two fields at the same path with different return types
\* never have the same response name.
C18_AliasOnTypeConflict ==
  \A k \in Returned :
    \A occ \in docs[k].view.fields :
      /\ occ.alias # "" =>
           /\ occ.alias = occ.field \o
                SanitizedTypeString(FieldDef(SchemaOfDoc(k), occ.owner, occ.field).type)
           /\ \E other \in SamePath(k, occ) : TypeStringOf(k, other) # TypeStringOf(k, occ)
      /\ (\A other \in SamePath(k, occ) : TypeStringOf(k, other) = TypeStringOf(k, occ))
           => occ.alias = ""
      /\ \A other \in SamePath(k, occ) :
           TypeStringOf(k, other) # TypeStringOf(k, occ)
             => ResponseName(other) # ResponseName(occ)

\* The schema arguments of the field a resolveField call e was made for, and
\* the name the call looks up in the allow-list for the i-th of them
ExitArguments(k, e) == FieldDef(SchemaOfDoc(k), e.owner, e.field).args
ExitArgumentName(k, e, i) == getArgumentName(ExitArguments(k, e)[i].name, e.pathIn)
ExitExcluded(k, e, i) == ExitArgumentName(k, e, i) \notin docs[k].opts.argNames.names

\* The names of the schema arguments of e that the allow-list has, in schema
\* order, and the names of the argument nodes of the field node e returned
AllowedArgumentNames(k, e) ==
  LET kept == SelectSeq([i \in 1..Len(ExitArguments(k, e)) |-> i],
                        LAMBDA i : ~ExitExcluded(k, e, i))
  IN [j \in 1..Len(kept) |-> ExitArguments(k, e)[kept[j]].name]
EmittedArgumentSeq(ref) ==
  [i \in 1..Len(heap[ref].arguments) |->
     NameValue(heap, heap[heap[ref].arguments[i]].name)]

\* C19: with an argument allow-list, a field whose arguments that are not in
\* the list (by path-qualified name) are all nullable is kept: resolveField
\* returns a field node for it, the node has no argument node and the
\* document no variable definition for an excluded argument, and the
\* arguments that are in the list are emitted in schema order.
C19_NullableArgumentSkipped ==
  \A k \in Returned :
    docs[k].opts.argNames.has =>
      \A e \in docs[k].exits :
        (\A i \in 1..Len(ExitArguments(k, e)) :
           ExitExcluded(k, e, i) => ~isNonNullType(ExitArguments(k, e)[i].type))
        => /\ e.r # 0
           /\ EmittedArgumentSeq(e.r) = AllowedArgumentNames(k, e)
           /\ \A i \in 1..Len(ExitArguments(k, e)) :
                ExitExcluded(k, e, i) =>
                  ExitArgumentName(k, e, i) \notin VariableDefinitionNames(k)

\* The nullable `after` of Post.comments is not in the list: the field was
\* emitted with `limit` and `sort` in schema order, and they have variable
\* definitions
C19_Witness ==
  \E k \in Returned :
    /\ docs[k].opts.argNames.has
    /\ "posts_comments_after" \notin docs[k].opts.argNames.names
    /\ \E e \in docs[k].exits :
         /\ e.owner = "Post" /\ e.field = "comments" /\ e.r # 0
         /\ ExitExcluded(k, e, 1)
         /\ EmittedArgumentSeq(e.r) = <<"limit", "sort">>
    /\ {"posts_comments_limit", "posts_comments_sort"}
         \subseteq VariableDefinitionNames(k)
    /\ "posts_comments_after" \notin VariableDefinitionNames(k)

\* The two FIELD nodes f(a: $a, b: $b) and f(b: $b, a: $a)
PermutedFields == {"field f(a, b)", "field f(b, a)"}

\* C20: two FIELD nodes that differ only in the order of their arguments,
\* passed to getCachedNode in one cache lifetime and under one hash function,
\* have the same structural signature and get the same canonical instance,
\* and the node passed in keeps the order of its arguments.
C20_ArgumentOrderIndependent ==
  /\ \A i, j \in CurrentInterned :
       (/\ {interned[i].shape, interned[j].shape} = PermutedFields
        /\ interned[i].loaded = interned[j].loaded)
       => /\ interned[i].signature = interned[j].signature
          /\ interned[i].r = interned[j].r
  /\ \A k \in 1..Len(interned) :
       heap[interned[k].node].arguments = interned[k].arguments

\* getCachedNode leaves the argument list of the node passed in as it was
C20_ArgumentsKeepOrder ==
  \A k \in 1..Len(interned) :
    heap[interned[k].node].arguments = interned[k].arguments

\* C21: within one cache lifetime and under one hash function, two nodes with
\* the same kind, name, alias and children that are passed to getCachedNode
\* get the same hash, whatever the number of their children, the calls made
\* in between and the hash stamps they carry, and the second is a cache hit:
\* it gets the instance the first one got.
C21_SignatureOfContentOnly ==
  \A i, j \in CurrentInterned :
    (/\ i < j
     /\ interned[i].shape = interned[j].shape
     /\ interned[i].loaded = interned[j].loaded)
    => /\ interned[i].hash = interned[j].hash
       /\ interned[j].r = interned[i].r

\* C22: in every returned document the selections of the operation are one
\* element, a FIELD node for the requested root field, under every argument
\* allow-list, one that lacks a non-null argument of the root field included.
C22_OneRootField ==
  \A k \in Returned :
    LET selections == docs[k].node.selections
    IN /\ Len(selections) = 1
       /\ selections[1] # 0
       /\ heap[selections[1]].kind = "Field"
       /\ NameValue(heap, heap[selections[1]].name) = docs[k].opts.field

\* The schema return type of the field of an occurrence, list and non-null
\* wrappers taken off, is an object, interface or union type
CompositeField(k, occ) ==
  LET namedType == getNamedType(FieldDef(SchemaOfDoc(k), occ.owner, occ.field).type)
  IN /\ ~isScalarType(SchemaOfDoc(k), namedType)
     /\ ~isEnumType(SchemaOfDoc(k), namedType)

C23_LeafFieldsAreLeaves ==
  \A k \in Returned :
    \A occ \in docs[k].view.fields :
      (HasField(SchemaOfDoc(k), occ.owner, occ.field) /\ ~CompositeField(k, occ))
        => occ.selectionSet = 0

\* The names of the variables that the argument nodes of the fields of a
\* returned document refer to
ReferencedVariables(k) ==
  UNION {{occ.arguments[i].variable : i \in 1..Len(occ.arguments)} :
           occ \in docs[k].view.fields}

\* C24: in every returned document the names of the variable definitions are
\* the names of the variables that argument nodes of fields of the selection
\* tree refer to: each variable referred to is defined, and none is defined
\* for an argument of a field that is not in the document.
C24_VariablesMatchReferences ==
  \A k \in Returned : VariableDefinitionNames(k) = ReferencedVariables(k)

\* Every variable an argument node refers to has a variable definition
C24_ReferencedAreDefined ==
  \A k \in Returned : ReferencedVariables(k) \subseteq VariableDefinitionNames(k)

\* C25: within one cache lifetime, two getCachedNode calls that computed the
\* same signature string computed the same cache key, whether xxhash finished
\* loading before, between or after them, and the later call returned the
\* instance the earlier one returned.
C25_KeyStableAcrossXxhashLoad ==
  \A i, j \in CurrentInterned :
    (i < j /\ interned[i].signature = interned[j].signature)
    => /\ interned[i].hash = interned[j].hash
       /\ interned[j].r = interned[i].r

\* The same for two calls under one hash function
C25_KeyStableUnderOneFunction ==
  \A i, j \in CurrentInterned :
    (/\ i < j
     /\ interned[i].signature = interned[j].signature
     /\ interned[i].loaded = interned[j].loaded)
    => /\ interned[i].hash = interned[j].hash
       /\ interned[j].r = interned[i].r

====
